---- MODULE Spec2Model ----
(***************************************************************************)
(* RegisterCubeMakerNode.py: the registration of the 'CubeMaker' node type *)
(* (registerCubeMaker) and its Op chain callback (buildCubeMakerOpChain).  *)
(*                                                                         *)
(* Strings the code takes apart (the location, the attribute paths) are    *)
(* sequences of one-character strings, so that slicing, split and join are *)
(* computed character by character. Names the code only passes around      *)
(* (parameter names, the Op name, hint keys) are plain strings.            *)
(***************************************************************************)
EXTENDS Integers, Sequences, FiniteSets, TLC

VARIABLES
    pc,               \* position of the script (the line about to run)
    runs,             \* how many times registerCubeMaker was entered
    gb,               \* the GroupBuilder of the parameter template (line 68)
    nodeTypeBuilder,  \* the NodeTypeBuilder (line 65)
    registry,         \* the host's node types, one entry per build()
    created,          \* whether the host has instantiated a CubeMaker node
    node,             \* the node: parameter name -> its value at each time
    interface,        \* the BuildChainInterface handed to the callback
    argsGb,           \* the callback's GroupBuilder, as its last run left it
    last,             \* the most recent invocation of the callback
    outcomes          \* per time: the fresh-interface invocations since the last edit

vars == <<pc, runs, gb, nodeTypeBuilder, registry, created, node, interface,
          argsGb, last, outcomes>>

(***************************************************************************)
(* Bounds and input sets                                                   *)
(***************************************************************************)
MaxLocLen == 4
MaxBuilds == 2

Times == {0, 1}
Alphabet == {"/", "a"}
NumberOfCubesValues == {20, 5}
RotateCubesValues == {0, 1, 2}
MaxRotationValues == {0, 15}

ParamNames == {"location", "numberOfCubes", "rotateCubes", "maxRotation"}

RECURSIVE StringsUpTo(_)
StringsUpTo(n) ==
    IF n = 0 THEN {<<>>}
    ELSE LET shorter == StringsUpTo(n - 1)
         IN shorter \cup {Append(s, c) : s \in shorter, c \in Alphabet}

(***************************************************************************)
(* Literals of the source                                                  *)
(***************************************************************************)
DefaultLocation ==
    <<"/","r","o","o","t","/","w","o","r","l","d","/","g","e","o","/",
      "c","u","b","e","M","a","k","e","r">>
DefaultNumberOfCubes == 20
DefaultRotateCubes == 0
DefaultMaxRotation == 0

Slash == "/"
Dot == <<".">>
ChildMarker == <<"c">>
NumberOfCubesSuffix ==
    <<".","a",".","n","u","m","b","e","r","O","f","C","u","b","e","s">>
MaxRotationSuffix ==
    <<".","a",".","m","a","x","R","o","t","a","t","i","o","n">>

Locations == StringsUpTo(MaxLocLen) \cup {DefaultLocation}

Constant(v) == [t \in Times |-> v]
Ramp(v0, v1) == [t \in Times |-> IF t = 0 THEN v0 ELSE v1]

CurvesOf(name) ==
    CASE name = "location" -> {Constant(l) : l \in Locations}
      [] name = "numberOfCubes" ->
             {Constant(v) : v \in NumberOfCubesValues} \cup {Ramp(20, 5)}
      [] name = "rotateCubes" ->
             {Constant(v) : v \in RotateCubesValues} \cup {Ramp(0, 1), Ramp(1, 2)}
      [] name = "maxRotation" ->
             {Constant(v) : v \in MaxRotationValues} \cup {Ramp(0, 15)}

(***************************************************************************)
(* FnAttribute: attributes and the GroupBuilder                            *)
(***************************************************************************)
StringAttribute(v) == [type |-> "string", value |-> v]
IntAttribute(v) == [type |-> "int", value |-> v]
DoubleAttribute(v) == [type |-> "double", value |-> v]

EmptyGroup == [k \in {} |-> 0]

GroupBuilderSet(builder, key, attr) ==
    [k \in DOMAIN builder \cup {key} |-> IF k = key THEN attr ELSE builder[k]]

GroupBuilderBuild(builder) == builder

(***************************************************************************)
(* The node's parameters and the build interface                           *)
(***************************************************************************)
None == [exists |-> FALSE]

getParameter(n, name) ==
    IF name \in DOMAIN n THEN [exists |-> TRUE, curve |-> n[name]] ELSE None

getValue(param, time) == param.curve[time]

Truthy(param) == param.exists

getTime(iface) == iface.time

setMinRequiredInputs(iface, n) ==
    [iface EXCEPT !.calls = Append(@, [fn |-> "setMinRequiredInputs", arg |-> n])]

appendOp(iface, name, args) ==
    [iface EXCEPT !.calls = Append(@, [fn |-> "appendOp", name |-> name, args |-> args])]

\* An interface is the graph state's time and the calls made on it so far;
\* `invoked` is the host's count of the invocations it made with it.
FreshInterface(time) == [time |-> time, calls |-> <<>>, invoked |-> 0]

IsAppendOp(call) == call.fn = "appendOp"
OpChain(iface) == SelectSeq(iface.calls, IsAppendOp)

(***************************************************************************)
(* String operations of line 48 and lines 49-51                            *)
(***************************************************************************)
DropFirst(s) == SubSeq(s, 2, Len(s))

RECURSIVE Split(_, _)
Split(s, sep) ==
    IF \A i \in 1..Len(s) : s[i] # sep THEN <<s>>
    ELSE LET i == CHOOSE j \in 1..Len(s) :
                      s[j] = sep /\ \A k \in 1..(j - 1) : s[k] # sep
         IN <<SubSeq(s, 1, i - 1)>> \o Split(SubSeq(s, i + 1, Len(s)), sep)

RECURSIVE Join(_, _)
Join(parts, sep) ==
    IF parts = <<>> THEN <<>>
    ELSE IF Len(parts) = 1 THEN parts[1]
    ELSE parts[1] \o sep \o Join(Tail(parts), sep)

Zip(xs, ys) ==
    [i \in 1..(IF Len(xs) < Len(ys) THEN Len(xs) ELSE Len(ys)) |-> <<xs[i], ys[i]>>]

RECURSIVE Flatten(_)
Flatten(tuples) ==
    IF tuples = <<>> THEN <<>> ELSE tuples[1] \o Flatten(Tail(tuples))

Repeat(x, n) == [i \in 1..n |-> x]

locationPaths_KeepsFirst(location) == Split(DropFirst(location), Slash)

locationPaths(location) == DropFirst(Split(DropFirst(location), Slash))

attrsHierarchy_MarkerAfter(paths) ==
    Join(Flatten(Zip(paths, Repeat(ChildMarker, Len(paths)))), Dot)

attrsHierarchy(paths) ==
    Join(Flatten(Zip(Repeat(ChildMarker, Len(paths)), paths)), Dot)

(***************************************************************************)
(* buildCubeMakerOpChain (lines 14-61). A run of lines 38-58 is threaded   *)
(* through a record [raised, argsGb]: raised is the AttributeError of      *)
(* calling getValue on the None that getParameter gave for a parameter the *)
(* node does not have.                                                     *)
(***************************************************************************)
Running(builder) == [raised |-> FALSE, argsGb |-> builder]
Raised(builder) == [raised |-> TRUE, argsGb |-> builder]

GroupBuilder_Reused == argsGb

GroupBuilder == EmptyGroup

SetMinimumInputPorts_One(iface) == setMinRequiredInputs(iface, 1)

SetMinimumInputPorts(iface) == setMinRequiredInputs(iface, 0)

ParseNodeParameters_Creating(n) ==
    LET made == [name \in ParamNames |->
                    IF name \in DOMAIN n THEN n[name]
                    ELSE [t \in Times |-> IF name = "location" THEN <<>> ELSE 0]]
    IN [node |-> made,
        locationParam |-> getParameter(made, "location"),
        numberOfCubesParam |-> getParameter(made, "numberOfCubes"),
        rotateCubesParam |-> getParameter(made, "rotateCubes"),
        maxRotationParam |-> getParameter(made, "maxRotation")]

ParseNodeParameters(n) ==
    [node |-> n,
     locationParam |-> getParameter(n, "location"),
     numberOfCubesParam |-> getParameter(n, "numberOfCubes"),
     rotateCubesParam |-> getParameter(n, "rotateCubes"),
     maxRotationParam |-> getParameter(n, "maxRotation")]

LocationGuard_AllParams(p) ==
    /\ Truthy(p.locationParam)
    /\ Truthy(p.numberOfCubesParam)
    /\ Truthy(p.rotateCubesParam)
    /\ Truthy(p.maxRotationParam)

LocationGuard_Always(p) == TRUE

LocationGuard(p) == Truthy(p.locationParam)

RotateCubesOn_NonZero(value) == value # 0

RotateCubesOn(value) == value = 1

SetNumberOfCubes(run, p, hierarchy, frameTime) ==
    IF run.raised THEN run
    ELSE IF ~p.numberOfCubesParam.exists THEN Raised(run.argsGb)
    ELSE Running(GroupBuilderSet(run.argsGb, hierarchy \o NumberOfCubesSuffix,
                     IntAttribute(getValue(p.numberOfCubesParam, frameTime))))

SetMaxRotation(run, p, hierarchy, frameTime) ==
    IF run.raised THEN run
    ELSE IF ~p.rotateCubesParam.exists THEN Raised(run.argsGb)
    ELSE IF ~RotateCubesOn(getValue(p.rotateCubesParam, frameTime)) THEN run
    ELSE IF ~p.maxRotationParam.exists THEN Raised(run.argsGb)
    ELSE Running(GroupBuilderSet(run.argsGb, hierarchy \o MaxRotationSuffix,
                     DoubleAttribute(getValue(p.maxRotationParam, frameTime))))

EncodeLocation(builder, p, frameTime) ==
    IF ~p.locationParam.exists THEN Raised(builder)
    ELSE LET location == getValue(p.locationParam, frameTime)
             hierarchy == attrsHierarchy(locationPaths(location))
         IN SetMaxRotation(
                SetNumberOfCubes(Running(builder), p, hierarchy, frameTime),
                p, hierarchy, frameTime)

AddCubeMakerOp(iface, builder) ==
    appendOp(iface, "CubeMaker", GroupBuilderBuild(builder))

buildCubeMakerOpChain(n, iface) ==
    LET frameTime == getTime(iface)
        iface1 == SetMinimumInputPorts(iface)
        builder == GroupBuilder
        p == ParseNodeParameters(n)
        run == IF LocationGuard(p)
               THEN EncodeLocation(builder, p, frameTime)
               ELSE Running(builder)
    IN [node |-> p.node,
        argsGb |-> run.argsGb,
        raised |-> run.raised,
        interface |-> IF run.raised THEN iface1
                      ELSE AddCubeMakerOp(iface1, run.argsGb)]

(***************************************************************************)
(* registerCubeMaker (lines 64-92), one action per statement, and the      *)
(* call of line 95                                                         *)
(***************************************************************************)
NoNodeTypeBuilder ==
    [name |-> "", parametersTemplateAttr |-> EmptyGroup, hints |-> EmptyGroup,
     buildOpChainFnc |-> ""]

NodeTypeBuilder(name) == [NoNodeTypeBuilder EXCEPT !.name = name]

setParametersTemplateAttr(builder, attr) ==
    [builder EXCEPT !.parametersTemplateAttr = attr]

setHintsForParameter(builder, name, hints) ==
    [builder EXCEPT !.hints = GroupBuilderSet(@, name, hints)]

setBuildOpChainFnc(builder, fnc) == [builder EXCEPT !.buildOpChainFnc = fnc]

HostState == <<created, node, interface, argsGb, last, outcomes>>

GbSetStatement(from, to, name, attr) ==
    /\ pc = from
    /\ gb' = GroupBuilderSet(gb, name, attr)
    /\ pc' = to
    /\ UNCHANGED <<runs, nodeTypeBuilder, registry, HostState>>

HintsStatement(from, to, name, hints) ==
    /\ pc = from
    /\ nodeTypeBuilder' = setHintsForParameter(nodeTypeBuilder, name, hints)
    /\ pc' = to
    /\ UNCHANGED <<runs, gb, registry, HostState>>

l95_registerCubeMaker ==
    /\ pc = "l95"
    /\ runs' = runs + 1
    /\ pc' = "l65"
    /\ UNCHANGED <<gb, nodeTypeBuilder, registry, HostState>>

l65_NodeTypeBuilder ==
    /\ pc = "l65"
    /\ nodeTypeBuilder' = NodeTypeBuilder("CubeMaker")
    /\ pc' = "l68"
    /\ UNCHANGED <<runs, gb, registry, HostState>>

l68_GroupBuilder ==
    /\ pc = "l68"
    /\ gb' = EmptyGroup
    /\ pc' = "l69"
    /\ UNCHANGED <<runs, nodeTypeBuilder, registry, HostState>>

l69_set_location ==
    GbSetStatement("l69", "l71", "location", StringAttribute(DefaultLocation))

l71_set_numberOfCubes ==
    GbSetStatement("l71", "l72", "numberOfCubes", IntAttribute(DefaultNumberOfCubes))

l72_set_rotateCubes ==
    GbSetStatement("l72", "l73", "rotateCubes", IntAttribute(DefaultRotateCubes))

l73_set_maxRotation_Skipped ==
    /\ pc = "l73"
    /\ pc' = "l76"
    /\ UNCHANGED <<runs, gb, nodeTypeBuilder, registry, HostState>>

l73_set_maxRotation ==
    GbSetStatement("l73", "l76", "maxRotation", DoubleAttribute(DefaultMaxRotation))

l76_setParametersTemplateAttr ==
    /\ pc = "l76"
    /\ nodeTypeBuilder' =
           setParametersTemplateAttr(nodeTypeBuilder, GroupBuilderBuild(gb))
    /\ pc' = "l79"
    /\ UNCHANGED <<runs, gb, registry, HostState>>

l79_hints_location ==
    HintsStatement("l79", "l81", "location", [widget |-> "scenegraphLocation"])

l81_hints_numberOfCubes ==
    HintsStatement("l81", "l82", "numberOfCubes", [int |-> TRUE])

l82_hints_rotateCubes ==
    HintsStatement("l82", "l83", "rotateCubes", [widget |-> "boolean"])

l83_hints_maxRotation ==
    HintsStatement("l83", "l89", "maxRotation",
        [conditionalVisOp |-> "equalTo",
         conditionalVisPath |-> "../rotateCubes",
         conditionalVisValue |-> 1])

l89_setBuildOpChainFnc ==
    /\ pc = "l89"
    /\ nodeTypeBuilder' =
           setBuildOpChainFnc(nodeTypeBuilder, "buildCubeMakerOpChain")
    /\ pc' = "l92"
    /\ UNCHANGED <<runs, gb, registry, HostState>>

l92_build ==
    /\ pc = "l92"
    /\ registry' = Append(registry, nodeTypeBuilder)
    /\ pc' = "done"
    /\ UNCHANGED <<runs, gb, nodeTypeBuilder, HostState>>

(***************************************************************************)
(* The host: it instantiates a node from the registered template, edits    *)
(* its parameters, hands out build interfaces and invokes the registered   *)
(* callback. An edit dirties the node: the host drops the interface and    *)
(* what it kept of earlier invocations.                                    *)
(***************************************************************************)
NoInvocation == [status |-> "none", before |-> FreshInterface(0), again |-> FALSE]
NoOutcomes == [t \in Times |-> [seen |-> FALSE, raised |-> FALSE, calls |-> <<>>]]

RegState == <<pc, runs, gb, nodeTypeBuilder, registry>>

Edited(n) ==
    /\ node' = n
    /\ interface' = FreshInterface(interface.time)
    /\ argsGb' = EmptyGroup
    /\ last' = NoInvocation
    /\ outcomes' = NoOutcomes
    /\ UNCHANGED <<RegState, created>>

CreateNode ==
    /\ ~created
    /\ registry # <<>>
    /\ created' = TRUE
    /\ LET template == registry[1].parametersTemplateAttr
       IN node' = [name \in DOMAIN template |->
                      [t \in Times |-> template[name].value]]
    /\ UNCHANGED <<RegState, interface, argsGb, last, outcomes>>

SetParameter ==
    /\ created
    /\ \E name \in DOMAIN node : \E curve \in CurvesOf(name) :
          /\ node[name] # curve
          /\ Edited([node EXCEPT ![name] = curve])

DeleteParameter ==
    /\ created
    /\ \E name \in DOMAIN node :
          Edited([other \in DOMAIN node \ {name} |-> node[other]])

CreateParameter ==
    /\ created
    /\ LET template == registry[1].parametersTemplateAttr
       IN \E name \in DOMAIN template \ DOMAIN node :
             Edited([other \in DOMAIN node \cup {name} |->
                        IF other = name
                        THEN [t \in Times |-> template[name].value]
                        ELSE node[other]])

NewInterface ==
    /\ created
    /\ \E t \in Times :
          /\ interface # FreshInterface(t)
          /\ interface' = FreshInterface(t)
    /\ last' = NoInvocation
    /\ UNCHANGED <<RegState, created, node, argsGb, outcomes>>

Invoke ==
    /\ created
    /\ registry[1].buildOpChainFnc = "buildCubeMakerOpChain"
    /\ interface.invoked < MaxBuilds
    /\ LET r == buildCubeMakerOpChain(node, interface)
           made == SubSeq(r.interface.calls, Len(interface.calls) + 1,
                          Len(r.interface.calls))
       IN /\ node' = r.node
          /\ interface' = [r.interface EXCEPT !.invoked = @ + 1]
          /\ argsGb' = r.argsGb
          /\ last' = [status |-> IF r.raised THEN "raised" ELSE "returned",
                      before |-> interface,
                      again |-> interface.calls = <<>> /\ outcomes[interface.time].seen]
          /\ outcomes' =
                 IF interface.calls = <<>>
                 THEN [outcomes EXCEPT ![interface.time] =
                          [seen |-> TRUE, raised |-> r.raised, calls |-> made]]
                 ELSE outcomes
    /\ UNCHANGED <<RegState, created>>

Init ==
    /\ pc = "l95"
    /\ runs = 0
    /\ gb = EmptyGroup
    /\ nodeTypeBuilder = NoNodeTypeBuilder
    /\ registry = <<>>
    /\ created = FALSE
    /\ node = EmptyGroup
    /\ interface = FreshInterface(0)
    /\ argsGb = EmptyGroup
    /\ last = NoInvocation
    /\ outcomes = NoOutcomes

Next ==
    \/ l95_registerCubeMaker
    \/ l65_NodeTypeBuilder
    \/ l68_GroupBuilder
    \/ l69_set_location
    \/ l71_set_numberOfCubes
    \/ l72_set_rotateCubes
    \/ l73_set_maxRotation
    \/ l76_setParametersTemplateAttr
    \/ l79_hints_location
    \/ l81_hints_numberOfCubes
    \/ l82_hints_rotateCubes
    \/ l83_hints_maxRotation
    \/ l89_setBuildOpChainFnc
    \/ l92_build
    \/ CreateNode
    \/ SetParameter
    \/ DeleteParameter
    \/ CreateParameter
    \/ NewInterface
    \/ Invoke

Spec == Init /\ [][Next]_vars

(***************************************************************************)
(* Vocabulary of the properties. An edit resets `last`, so while           *)
(* last.status # "none" the node and interface.time are those the          *)
(* invocation ran with.                                                    *)
(***************************************************************************)
Invoked == last.status # "none"
Completed == last.status = "returned"
Aborted == last.status = "raised"
Has(name) == name \in DOMAIN node
ValueAt(name) == node[name][interface.time]
LastCalls ==
    SubSeq(interface.calls, Len(last.before.calls) + 1, Len(interface.calls))
LastOp == interface.calls[Len(interface.calls)]
LastArgs == LastOp.args

EndsWith(s, suffix) ==
    /\ Len(s) >= Len(suffix)
    /\ SubSeq(s, Len(s) - Len(suffix) + 1, Len(s)) = suffix

SlashPositions(s) == {i \in 1..Len(s) : s[i] = "/"}

\* /s0/s1/.../sN with N >= 1 and no empty segment
WellFormedLocation(l) ==
    /\ Len(l) >= 1
    /\ l[1] = "/"
    /\ l[Len(l)] # "/"
    /\ Cardinality(SlashPositions(l)) >= 2
    /\ \A i \in SlashPositions(l) : (i + 1) \notin SlashPositions(l)

RECURSIVE SlashesToMarkers(_)
SlashesToMarkers(s) ==
    IF s = <<>> THEN <<>>
    ELSE (IF Head(s) = "/" THEN <<".", "c", ".">> ELSE <<Head(s)>>)
             \o SlashesToMarkers(Tail(s))

\* c.s1.c.s2. ... .c.sN.a.numberOfCubes of a well-formed /s0/s1/.../sN
ExpectedNumberOfCubesKey(l) ==
    LET second == CHOOSE i \in SlashPositions(l) \ {1} :
                      \A j \in SlashPositions(l) \ {1} : i <= j
    IN Tail(SlashesToMarkers(SubSeq(l, second, Len(l))))
           \o <<".","a",".","n","u","m","b","e","r","O","f","C","u","b","e","s">>

DefaultNumberOfCubesKey ==
    <<"c",".","w","o","r","l","d",".","c",".","g","e","o",".","c",".",
      "c","u","b","e","M","a","k","e","r",".","a",".",
      "n","u","m","b","e","r","O","f","C","u","b","e","s">>

\* C1: for a location /s0/s1/.../sN (N >= 1, no empty segment) and all four
\* parameters present, the arguments hold the key c.s1.c.s2. ... .c.sN.a.numberOfCubes
\* with the integer value of numberOfCubes at the evaluation time; for the default
\* location the key is c.world.c.geo.c.cubeMaker.a.numberOfCubes.
C1_NumberOfCubesKey ==
    (Completed /\ DOMAIN node = ParamNames /\ WellFormedLocation(ValueAt("location")))
    => LET key == ExpectedNumberOfCubesKey(ValueAt("location"))
       IN /\ key \in DOMAIN LastArgs
          /\ LastArgs[key] = [type |-> "int", value |-> ValueAt("numberOfCubes")]
          /\ ValueAt("location") = DefaultLocation => key = DefaultNumberOfCubesKey

C1_Witness ==
    /\ Completed
    /\ DOMAIN node = ParamNames
    /\ ValueAt("location") = DefaultLocation
    /\ interface.time = 1
    /\ node["numberOfCubes"][1] # node["numberOfCubes"][0]

\* C2 as stated: for location = "" or an absent location parameter the arguments
\* of the appended CubeMaker operation are empty, whatever the other parameters.
C2_EmptyOrAbsentLocation ==
    (Completed /\ (~Has("location") \/ ValueAt("location") = <<>>))
    => LastArgs = EmptyGroup

\* C2 amended: for an absent location parameter the invocation completes and the
\* arguments of the appended CubeMaker operation are empty, whatever the other
\* parameters; for a present location parameter whose value is "" a completed
\* invocation does set the key .a.numberOfCubes (zero 'c' levels).
C2_AbsentLocation ==
    /\ (Invoked /\ ~Has("location"))
       => (Completed /\ LastOp.fn = "appendOp" /\ LastOp.name = "CubeMaker"
           /\ LastArgs = EmptyGroup)
    /\ (Completed /\ Has("location") /\ ValueAt("location") = <<>>)
       => <<".","a",".","n","u","m","b","e","r","O","f","C","u","b","e","s">>
              \in DOMAIN LastArgs

C2_Witness ==
    /\ Invoked
    /\ ~Has("location")
    /\ Has("rotateCubes") /\ ValueAt("rotateCubes") = 1
    /\ Has("maxRotation") /\ ValueAt("maxRotation") = 15
    /\ Has("numberOfCubes")

\* C3: in a completed invocation with the location parameter present, the key
\* <path>.a.maxRotation is in the arguments iff rotateCubes is 1 at the evaluation
\* time; it then holds the floating-point value of maxRotation, alongside
\* numberOfCubes.
C3_MaxRotationIffRotateCubes ==
    (Completed /\ Has("location"))
    => LET path == attrsHierarchy(locationPaths(ValueAt("location")))
           rotate == ValueAt("rotateCubes") = 1
       IN /\ (\E k \in DOMAIN LastArgs : EndsWith(k, MaxRotationSuffix)) <=> rotate
          /\ rotate =>
                /\ (path \o MaxRotationSuffix) \in DOMAIN LastArgs
                /\ LastArgs[path \o MaxRotationSuffix] =
                       [type |-> "double", value |-> ValueAt("maxRotation")]
                /\ (path \o NumberOfCubesSuffix) \in DOMAIN LastArgs

C3_Witness ==
    /\ Completed
    /\ Has("location")
    /\ ValueAt("rotateCubes") = 1
    /\ ValueAt("maxRotation") = 15
    /\ interface.time = 1
    /\ node["rotateCubes"][0] # 1

\* C4: every invocation adds exactly one entry, the CubeMaker operation with the
\* arguments built in that invocation; after k invocations on the same interface
\* the chain holds k CubeMaker entries.
C4_OneEntryPerInvocation ==
    /\ Invoked =>
          /\ Len(OpChain(interface)) = Len(OpChain(last.before)) + 1
          /\ LastOp = [fn |-> "appendOp", name |-> "CubeMaker", args |-> argsGb]
    /\ Len(OpChain(interface)) = interface.invoked

\* C5 as stated: with location present and any sibling parameter absent the
\* invocation aborts and appends nothing.
C5_AbortOnAnyAbsentSibling ==
    (Invoked /\ Has("location") /\ DOMAIN node # ParamNames)
    => (Aborted /\ OpChain(interface) = OpChain(last.before))

\* C5 amended: with location present the invocation aborts exactly when
\* numberOfCubes or rotateCubes is absent, or maxRotation is absent while
\* rotateCubes is 1 at the evaluation time; an aborted invocation appends nothing.
C5_AbortOnDereferencedAbsent ==
    /\ (Invoked /\ Has("location"))
       => (Aborted <=>
              \/ ~Has("numberOfCubes")
              \/ ~Has("rotateCubes")
              \/ (ValueAt("rotateCubes") = 1 /\ ~Has("maxRotation")))
    /\ Aborted => OpChain(interface) = OpChain(last.before)

C5_Witness ==
    /\ Aborted
    /\ Has("location") /\ Has("numberOfCubes") /\ Has("rotateCubes")
    /\ ~Has("maxRotation")

\* C6: every invocation, aborted ones included, calls setMinRequiredInputs with 0
\* and no other value, before any operation is appended.
C6_MinRequiredInputsZeroFirst ==
    /\ Invoked =>
          /\ LastCalls # <<>>
          /\ LastCalls[1] = [fn |-> "setMinRequiredInputs", arg |-> 0]
    /\ \A i \in 1..Len(interface.calls) :
          interface.calls[i].fn = "setMinRequiredInputs" => interface.calls[i].arg = 0

C6_Witness ==
    /\ Aborted
    /\ LastCalls = <<[fn |-> "setMinRequiredInputs", arg |-> 0]>>
    /\ interface.invoked = 2

\* C7: two invocations on fresh interfaces at the same time, with the node's
\* parameters unchanged in between, have the same outcome: the same calls with the
\* same operation name, arguments and minimum-inputs value, and the same abort.
C7_SameOutcomeOnReinvocation ==
    [][\A t \in Times :
          (outcomes[t].seen /\ outcomes'[t].seen) => outcomes'[t] = outcomes[t]]_vars

C7_Witness ==
    /\ Completed
    /\ last.again
    /\ Has("location")
    /\ ValueAt("rotateCubes") = 1
    /\ outcomes[0].seen /\ outcomes[1].seen
    /\ outcomes[0] # outcomes[1]

\* C8: an invocation, completed or aborted, leaves the node's parameters and their
\* values as they were; on the interface it only calls setMinRequiredInputs and
\* appends at most one chain entry; the registered node type is untouched.
C8_InvocationFrame ==
    [][interface'.invoked = interface.invoked + 1 =>
          /\ node' = node
          /\ interface'.time = interface.time
          /\ Len(interface'.calls) > Len(interface.calls)
          /\ SubSeq(interface'.calls, 1, Len(interface.calls)) = interface.calls
          /\ Len(OpChain(interface')) <= Len(OpChain(interface)) + 1
          /\ \A i \in 1..Len(interface'.calls) :
                interface'.calls[i].fn \in {"setMinRequiredInputs", "appendOp"}
          /\ UNCHANGED <<pc, runs, gb, nodeTypeBuilder, registry, created>>]_vars

C8_Witness ==
    /\ Aborted
    /\ DOMAIN node = {"location", "maxRotation"}
    /\ interface.invoked = 2

\* C9: registerCubeMaker runs once; it commits the node type 'CubeMaker' once, as
\* its last step, with the four parameters at their defaults, the hints of all four
\* and the build callback set; nothing changes on the node type after the commit.
C9_RegistrationCommit ==
    /\ runs <= 1
    /\ pc # "l95" => runs = 1
    /\ Len(registry) <= 1
    /\ pc = "done" <=> Len(registry) = 1
    /\ registry # <<>> =>
          LET type == registry[1]
              template == type.parametersTemplateAttr
          IN /\ type.name = "CubeMaker"
             /\ DOMAIN template = {"location", "numberOfCubes", "rotateCubes", "maxRotation"}
             /\ template["location"] = [type |-> "string", value |-> DefaultLocation]
             /\ template["numberOfCubes"] = [type |-> "int", value |-> 20]
             /\ template["rotateCubes"] = [type |-> "int", value |-> 0]
             /\ template["maxRotation"] = [type |-> "double", value |-> 0]
             /\ DOMAIN type.hints = {"location", "numberOfCubes", "rotateCubes", "maxRotation"}
             /\ type.buildOpChainFnc = "buildCubeMakerOpChain"
             /\ nodeTypeBuilder = type

C9_Witness ==
    /\ pc = "done"
    /\ Len(registry) = 1
    /\ Completed

\* What is left of a location once its first character and its first
\* '/'-separated component are gone: <<>> when there is no further component.
RestOfLocation(l) ==
    LET tail == SubSeq(l, 2, Len(l))
    IN IF SlashPositions(tail) = {} THEN <<>>
       ELSE LET first == CHOOSE i \in SlashPositions(tail) :
                             \A j \in SlashPositions(tail) : i <= j
            IN <<SubSeq(tail, first + 1, Len(tail))>>

\* C10: the arguments do not depend on the first character of location nor on its
\* first component: every location with the same remainder gives the same calls,
\* and a location with a single component gives zero 'c' levels.
C10_FirstComponentIgnored ==
    (Completed /\ Has("location"))
    => /\ \A other \in Locations :
             RestOfLocation(other) = RestOfLocation(ValueAt("location"))
             => LET r == buildCubeMakerOpChain(
                             [node EXCEPT !["location"] = Constant(other)],
                             last.before)
                IN ~r.raised /\ r.interface.calls = interface.calls
       /\ RestOfLocation(ValueAt("location")) = <<>>
             => <<".","a",".","n","u","m","b","e","r","O","f","C","u","b","e","s">>
                    \in DOMAIN LastArgs

C10_Witness ==
    /\ Completed
    /\ Has("location")
    /\ ValueAt("location") = <<"a", "/", "a">>

====
